---- MODULE Spec2Model ----
(***************************************************************************)
(* A model of voyager's release command (create_release in                 *)
(* src/src/voyager/commands/release.py): one run of the command against a  *)
(* git repository.  The repository is the state: the local branches, the   *)
(* origin/<name> refs, the commit graph, the checked-out branch, the tags  *)
(* and what has been pushed.  Every git command the code calls is one      *)
(* step, and each may fail with a GitCommandError; every prompt is         *)
(* answered either way.                                                    *)
(***************************************************************************)
EXTENDS Integers, FiniteSets, Sequences, TLC

\* ------------------------------------------------------------------ bounds
\* Largest commit id: four commits exist at the start, the rest are made by the run.
MaxCommit == 10

\* ------------------------------------------------------------------ names
\* "ghost" is a branch name that exists nowhere.
Branches == {"main", "feature", "ghost"}
\* f'backup-{working_branch}-{timestamp}'
BackupName == "backup"
\* --version-branch, default 'version'
VersionBranch == "version"
\* f'v{new_version}'
TagName == "v_new"
\* rollback: f'rollback-to-{tag}'
RollbackBranch == "rollback-to-tag"
RefNames == Branches \cup {BackupName, VersionBranch, RollbackBranch}
\* the active branch of a detached HEAD (its .name raises TypeError)
Detached == "DETACHED"
\* --working-branch not given
NotGiven == "none"
\* the values of --release-branch and --working-branch that are tried
ReleaseChoices == {"main", "ghost"}
WorkingChoices == {NotGiven, "main", "feature"}
Strategies == {"checkout", "rebase", "merge", "merge-squash"}
BackupStrategies == {"rebase", "merge", "merge-squash"}
Commits == 1..MaxCommit
\* the tip of a ref that does not exist
NoCommit == 0

\* The commit graph at the start: 1 is the root; 2 (work on feature), 3 (work on
\* main) and 4 (work pushed to origin/main by someone else) are children of 1.
InitAnc == [c \in Commits |-> IF c = 1 THEN {1} ELSE IF c \in {2, 3, 4} THEN {1, c} ELSE {}]

VARIABLES
    pc,               \* position of the run in create_release
    head,             \* git_repo.active_branch.name, or Detached
    local,            \* local branch -> tip commit, NoCommit when absent
    origin,           \* origin/<branch> -> tip commit, NoCommit when absent
    anc,              \* commit -> the commits reachable from it (itself included)
    nextc,            \* the next fresh commit id
    dirty,            \* the operator's uncommitted changes in the working tree
    tags,             \* local tags
    pushed,           \* refs pushed to origin by this run
    release_branch,   \* --release-branch
    working_branch,   \* --working-branch, or the current branch
    current_branch,   \* the local variable current_branch
    merge_strategy,   \* --merge-strategy, "" until the strategy is dispatched
    exit_code,        \* -1 while running, else the exit status
    original_branch,  \* VersionFinder / VersionUpdater: self.original_branch
    switched_branch,  \* VersionFinder / VersionUpdater: switched_branch
    current_version,  \* "" (None), "found", "0.1.0" (the seed) or "typed"
    version_file_path,\* whether a version file path is known
    changes_committed,\* the value update_version returns
    raised,           \* an exception is propagating out of the finder or the updater
    dry_run,          \* --dry-run: "yes", "no", or "unset" before it is read
    done,             \* the steps of the run that have been carried out
    failed,           \* the strategy step whose git command failed, or ""
    start,            \* the repository when the command started
    files,            \* branch -> version file location -> "absent", "nomatch", "match"
    custom_version_file, \* whether --version-file was given
    tag_list,         \* git_repo.tags: the tags in ref order, each with its commit time
    returned,         \* what the calls of get_current_version returned, in order
    type,             \* the release type: "major", "minor" or "patch"
    new_version,      \* the computed new version, "" until computed
    tag,              \* rollback: the target tag
    staged,           \* rollback: whether the index holds a staged change
    github_authenticated \* rollback: github_client.is_authenticated

vars == <<pc, head, local, origin, anc, nextc, dirty, tags, pushed, release_branch,
          working_branch, current_branch, merge_strategy, exit_code, original_branch,
          switched_branch, current_version, version_file_path, changes_committed,
          raised, dry_run, done, failed, start, files, custom_version_file, tag_list,
          returned, type, new_version, tag, staged, github_authenticated>>

rollback_vars == <<tag, staged, github_authenticated>>
pure == <<files, custom_version_file, tag_list, returned, type, new_version, rollback_vars>>
repo == <<head, local, origin, anc, nextc, dirty, tags, pushed>>
args == <<release_branch, working_branch, current_branch, merge_strategy>>
ver == <<original_branch, switched_branch, current_version, version_file_path,
         changes_committed, raised, dry_run>>

\* ------------------------------------------------------------------ git
\* The step `step` was carried out.
Did(step) == done' = done \cup {step}

\* for ref in git_repo.refs: ref.name == b or ref.name == f'origin/{b}'
BranchExists(b) == local[b] # NoCommit \/ origin[b] # NoCommit

IsAncestor(a, b) == a # NoCommit /\ b # NoCommit /\ a \in anc[b]

\* git checkout <b>: switches to the local branch, or creates it from origin/<b>.
CanCheckout(b) == BranchExists(b)
LocalAfterCheckout(b) == IF local[b] # NoCommit THEN local ELSE [local EXCEPT ![b] = origin[b]]

\* git pull origin <b> on branch b: merges origin/<b> into b (fast-forward when it can).
PullTip(b) ==
    IF IsAncestor(origin[b], local[b]) THEN local[b]
    ELSE IF IsAncestor(local[b], origin[b]) THEN origin[b]
    ELSE nextc
PullAnc(b) ==
    IF PullTip(b) = nextc
    THEN [anc EXCEPT ![nextc] = anc[local[b]] \cup anc[origin[b]] \cup {nextc}]
    ELSE anc

\* git rebase <onto>, run with branch b checked out: the commits of b that are not
\* in <onto> are replayed, as new commits, on top of <onto>; b is moved to the last.
RebaseCount(b, onto) ==
    IF IsAncestor(local[onto], local[b]) THEN 0
    ELSE Cardinality(anc[local[b]] \ anc[local[onto]])
RebaseTip(b, onto) ==
    IF IsAncestor(local[onto], local[b]) THEN local[b]
    ELSE IF RebaseCount(b, onto) = 0 THEN local[onto]
    ELSE nextc + RebaseCount(b, onto) - 1
RebaseAnc(b, onto) ==
    [c \in Commits |->
        IF c >= nextc /\ c < nextc + RebaseCount(b, onto)
        THEN anc[local[onto]] \cup (nextc..c)
        ELSE anc[c]]

\* Mutant of MergeAnc: the merge commit has the release branch's tip as its only parent.
MergeAncOneParent(b, w) ==
    IF IsAncestor(local[w], local[b]) THEN anc
    ELSE [anc EXCEPT ![nextc] = anc[local[b]] \cup {nextc}]

\* git merge <w> --no-ff, run with branch b checked out: a merge commit with both
\* tips as parents, unless w is already contained in b.
MergeTip(b, w) == IF IsAncestor(local[w], local[b]) THEN local[b] ELSE nextc
MergeAnc(b, w) ==
    IF MergeTip(b, w) = nextc
    THEN [anc EXCEPT ![nextc] = anc[local[b]] \cup anc[local[w]] \cup {nextc}]
    ELSE anc

\* git commit with HEAD at h: one new commit on top of h's tip, and the branch
\* moves to it; on a detached HEAD no branch moves.
LocalAfterCommit(h) == IF h = Detached THEN local ELSE [local EXCEPT ![h] = nextc]
AncAfterCommit(h) ==
    IF h = Detached THEN anc ELSE [anc EXCEPT ![nextc] = anc[local[h]] \cup {nextc}]

\* ------------------------------------------------------------------ Init
InitLocal ==
    {[b \in RefNames |->
        IF b = "main" THEN m ELSE IF b = "feature" THEN f
        ELSE IF b = VersionBranch THEN v ELSE NoCommit] :
        m \in {1, 3}, f \in {NoCommit, 1, 2}, v \in {NoCommit, 1}}
InitOrigin ==
    {[b \in RefNames |->
        IF b = "main" THEN m ELSE IF b = "feature" THEN f ELSE NoCommit] :
        m \in {1, 4}, f \in {NoCommit, 2}}

Init ==
    /\ pc = "start"
    /\ local \in InitLocal
    /\ origin \in InitOrigin
    /\ head \in {b \in {"main", "feature"} : local[b] # NoCommit}
    /\ anc = InitAnc
    /\ nextc = 5
    /\ dirty \in BOOLEAN
    /\ tags = {}
    /\ pushed = {}
    /\ release_branch = ""
    /\ working_branch = ""
    /\ current_branch = ""
    /\ merge_strategy = ""
    /\ exit_code = -1
    /\ original_branch = ""
    /\ switched_branch = FALSE
    /\ current_version = ""
    /\ version_file_path = FALSE
    /\ changes_committed = FALSE
    /\ raised = FALSE
    /\ dry_run = "unset"
    /\ done = {}
    /\ failed = ""
    /\ start = [head |-> head, local |-> local, origin |-> origin, dirty |-> dirty]
    /\ files = <<>>
    /\ custom_version_file = FALSE
    /\ tag_list = <<>>
    /\ returned = <<>>
    /\ type = ""
    /\ new_version = ""
    /\ tag = ""
    /\ staged = FALSE
    /\ github_authenticated = FALSE

\* sys.exit(n)
Exit(n) == pc' = "exited" /\ exit_code' = n

\* ------------------------------------------------------------------ create_release
\* get_repo_info(), git.Repo(os.getcwd()): an exception there reaches the handler
\* with git_repo unbound.  Else current_branch = git_repo.active_branch.name; the
\* working branch defaults to it.
GetCurrentBranch ==
    /\ pc = "start"
    /\ \/ /\ \E r \in ReleaseChoices, w \in WorkingChoices :
                /\ release_branch' = r
                /\ working_branch' = IF w = NotGiven THEN head ELSE w
          /\ current_branch' = head
          /\ pc' = "check_release"
          /\ UNCHANGED failed
       \/ /\ failed' = "open_repo"
          /\ pc' = "error_handler"
          /\ UNCHANGED <<release_branch, working_branch, current_branch>>
    /\ UNCHANGED <<repo, merge_strategy, ver, exit_code, done, start, pure>>

\* Check if release branch exists
CheckReleaseBranch ==
    /\ pc = "check_release"
    /\ IF BranchExists(release_branch)
       THEN pc' = "check_working" /\ UNCHANGED exit_code
       ELSE Exit(1)
    /\ UNCHANGED <<repo, args, ver, done, failed, start, pure>>

\* Mutant of CheckWorkingBranch: the existence check is left out.
CheckWorkingBranchUnchecked ==
    /\ pc = "check_working"
    /\ pc' = IF working_branch = current_branch THEN "strategy" ELSE "switch_working"
    /\ UNCHANGED <<repo, args, ver, exit_code, done, failed, start, pure>>

\* Check if working branch exists (if different from current)
CheckWorkingBranch ==
    /\ pc = "check_working"
    /\ IF working_branch = current_branch
       THEN pc' = "strategy" /\ UNCHANGED exit_code
       ELSE IF BranchExists(working_branch)
       THEN pc' = "switch_working" /\ UNCHANGED exit_code
       ELSE Exit(1)
    /\ UNCHANGED <<repo, args, ver, done, failed, start, pure>>

\* git_repo.git.checkout(working_branch); when it fails, "Continue release from
\* current branch?": no cancels, yes makes the current branch the working branch
SwitchToWorking ==
    /\ pc = "switch_working"
    /\ \/ /\ CanCheckout(working_branch)
          /\ head' = working_branch
          /\ local' = LocalAfterCheckout(working_branch)
          /\ Did("switch_working")
          /\ pc' = "strategy"
          /\ UNCHANGED <<exit_code, working_branch>>
       \/ /\ Exit(0)
          /\ UNCHANGED <<head, local, done, working_branch>>
       \/ /\ working_branch' = current_branch
          /\ pc' = "strategy"
          /\ UNCHANGED <<head, local, done, exit_code>>
    /\ UNCHANGED <<origin, anc, nextc, dirty, tags, pushed, release_branch,
                   current_branch, merge_strategy, ver, failed, start, pure>>

\* if working_branch != release_branch: dispatch on the merge strategy
ChooseStrategy ==
    /\ pc = "strategy"
    /\ IF working_branch = release_branch
       THEN pc' = "find_version" /\ UNCHANGED merge_strategy
       ELSE \E s \in Strategies :
               /\ merge_strategy' = s
               /\ pc' = IF s = "checkout" THEN "checkout_warn" ELSE "fetch_release"
    /\ UNCHANGED <<repo, release_branch, working_branch, current_branch, ver, exit_code,
                   done, failed, start, pure>>

\* A git command of the strategy fails: except git.GitCommandError
StrategyFails(step) ==
    /\ failed' = step
    /\ pc' = "strategy_error"
    /\ UNCHANGED done

\* A git command of the strategy succeeds.
StrategyStep(step, next) ==
    /\ Did(step)
    /\ pc' = next
    /\ UNCHANGED failed

\* Mutant of CheckoutWarn: the release branch is checked out without asking.
CheckoutWarnSilent ==
    /\ pc = "checkout_warn"
    /\ pc' = "checkout_release"
    /\ UNCHANGED <<repo, args, ver, exit_code, done, failed, start, pure>>

\* checkout strategy: with a working branch that is not the branch the command
\* started on, warn and ask "Continue with checkout strategy?"
CheckoutWarn ==
    /\ pc = "checkout_warn"
    /\ IF working_branch # current_branch
       THEN \/ /\ Did("confirm_checkout")
               /\ pc' = "checkout_release"
               /\ UNCHANGED exit_code
            \/ /\ Exit(0)
               /\ UNCHANGED done
       ELSE pc' = "checkout_release" /\ UNCHANGED <<exit_code, done>>
    /\ UNCHANGED <<repo, args, ver, failed, start, pure>>

\* Mutant of CheckoutRelease: the release branch is moved to the working branch's tip.
CheckoutReleaseTakesWorking ==
    /\ pc = "checkout_release"
    /\ \/ /\ CanCheckout(release_branch)
          /\ head' = release_branch
          /\ local' = [local EXCEPT ![release_branch] = local[working_branch]]
          /\ StrategyStep("checkout_release", "record_branch")
       \/ StrategyFails("checkout_release") /\ UNCHANGED <<head, local>>
    /\ UNCHANGED <<origin, anc, nextc, dirty, tags, pushed, args, ver, exit_code, start, pure>>

\* checkout strategy: git_repo.git.checkout(release_branch)
CheckoutRelease ==
    /\ pc = "checkout_release"
    /\ \/ /\ CanCheckout(release_branch)
          /\ head' = release_branch
          /\ local' = LocalAfterCheckout(release_branch)
          /\ StrategyStep("checkout_release", "record_branch")
       \/ StrategyFails("checkout_release") /\ UNCHANGED <<head, local>>
    /\ UNCHANGED <<origin, anc, nextc, dirty, tags, pushed, args, ver, exit_code, start, pure>>

\* git_repo.git.fetch('origin', release_branch)
FetchRelease ==
    /\ pc = "fetch_release"
    /\ \/ /\ origin[release_branch] # NoCommit
          /\ StrategyStep("fetch_release", "fetch_working")
       \/ StrategyFails("fetch_release")
    /\ UNCHANGED <<repo, args, ver, exit_code, start, pure>>

\* Mutant of FetchWorking: the strategy goes on without making the backup branch.
FetchWorkingSkipsBackup ==
    /\ pc = "fetch_working"
    /\ \/ /\ origin[working_branch] # NoCommit
          /\ StrategyStep("fetch_working", "to_release")
       \/ StrategyFails("fetch_working")
    /\ UNCHANGED <<repo, args, ver, exit_code, start, pure>>

\* git_repo.git.fetch('origin', working_branch)
FetchWorking ==
    /\ pc = "fetch_working"
    /\ \/ /\ origin[working_branch] # NoCommit
          /\ StrategyStep("fetch_working", "create_backup")
       \/ StrategyFails("fetch_working")
    /\ UNCHANGED <<repo, args, ver, exit_code, start, pure>>

\* git_repo.git.checkout('-b', backup_branch): a new branch at HEAD, checked out
CreateBackup ==
    /\ pc = "create_backup"
    /\ \/ /\ local[BackupName] = NoCommit
          /\ head # Detached
          /\ local' = [local EXCEPT ![BackupName] = local[head]]
          /\ head' = BackupName
          /\ StrategyStep("create_backup", "back_to_working")
       \/ StrategyFails("create_backup") /\ UNCHANGED <<head, local>>
    /\ UNCHANGED <<origin, anc, nextc, dirty, tags, pushed, args, ver, exit_code, start, pure>>

\* git_repo.git.checkout(working_branch), after the backup was made
BackToWorking ==
    /\ pc = "back_to_working"
    /\ \/ /\ CanCheckout(working_branch)
          /\ head' = working_branch
          /\ local' = LocalAfterCheckout(working_branch)
          /\ StrategyStep("back_to_working", "to_release")
       \/ StrategyFails("back_to_working") /\ UNCHANGED <<head, local>>
    /\ UNCHANGED <<origin, anc, nextc, dirty, tags, pushed, args, ver, exit_code, start, pure>>

\* git_repo.git.checkout(release_branch), before the pull
ToRelease ==
    /\ pc = "to_release"
    /\ \/ /\ CanCheckout(release_branch)
          /\ head' = release_branch
          /\ local' = LocalAfterCheckout(release_branch)
          /\ StrategyStep("to_release", "pull")
       \/ StrategyFails("to_release") /\ UNCHANGED <<head, local>>
    /\ UNCHANGED <<origin, anc, nextc, dirty, tags, pushed, args, ver, exit_code, start, pure>>

\* Mutant of PullRelease: a failed pull is a failure of the strategy.
PullReleaseAborts ==
    /\ pc = "pull"
    /\ \/ /\ origin[release_branch] # NoCommit
          /\ PullTip(release_branch) <= MaxCommit
          /\ local' = [local EXCEPT ![release_branch] = PullTip(release_branch)]
          /\ anc' = PullAnc(release_branch)
          /\ nextc' = IF PullTip(release_branch) = nextc THEN nextc + 1 ELSE nextc
          /\ StrategyStep("pull", "integrate")
       \/ /\ StrategyFails("pull")
          /\ UNCHANGED <<local, anc, nextc>>
    /\ UNCHANGED <<head, origin, dirty, tags, pushed, args, ver, exit_code, start, pure>>

\* git_repo.git.pull('origin', release_branch); a failure is caught and the
\* strategy goes on with the local copy
PullRelease ==
    /\ pc = "pull"
    /\ \/ /\ origin[release_branch] # NoCommit
          /\ PullTip(release_branch) <= MaxCommit
          /\ local' = [local EXCEPT ![release_branch] = PullTip(release_branch)]
          /\ anc' = PullAnc(release_branch)
          /\ nextc' = IF PullTip(release_branch) = nextc THEN nextc + 1 ELSE nextc
          /\ Did("pull")
       \/ /\ Did("pull_failed")
          /\ UNCHANGED <<local, anc, nextc>>
    /\ pc' = "integrate"
    /\ UNCHANGED <<head, origin, dirty, tags, pushed, args, ver, exit_code, failed, start, pure>>

\* The strategy's integration command, run with the release branch checked out:
\* git rebase <backup_branch>, git merge <working_branch> --no-ff, or
\* git merge <working_branch> --squash.  git refuses to rebase over uncommitted
\* changes; a rebase that stops on a conflict leaves HEAD detached.
Integrate ==
    /\ pc = "integrate"
    /\ \/ /\ merge_strategy = "rebase"
          /\ ~dirty
          /\ RebaseTip(release_branch, BackupName) <= MaxCommit
          /\ local' = [local EXCEPT ![release_branch] = RebaseTip(release_branch, BackupName)]
          /\ anc' = RebaseAnc(release_branch, BackupName)
          /\ nextc' = nextc + RebaseCount(release_branch, BackupName)
          /\ StrategyStep("integrate", "delete_backup")
          /\ UNCHANGED head
       \/ /\ merge_strategy = "rebase"
          /\ StrategyFails("integrate")
          /\ head' \in {head, Detached}
          /\ UNCHANGED <<local, anc, nextc>>
       \/ /\ merge_strategy = "merge"
          /\ MergeTip(release_branch, working_branch) <= MaxCommit
          /\ local' = [local EXCEPT ![release_branch] = MergeTip(release_branch, working_branch)]
          /\ anc' = MergeAnc(release_branch, working_branch)
          /\ nextc' = IF MergeTip(release_branch, working_branch) = nextc
                      THEN nextc + 1 ELSE nextc
          /\ StrategyStep("integrate", "delete_backup")
          /\ UNCHANGED head
       \/ /\ merge_strategy = "merge-squash"
          /\ StrategyStep("integrate", "squash_commit")
          /\ UNCHANGED <<head, local, anc, nextc>>
       \/ /\ merge_strategy \in {"merge", "merge-squash"}
          /\ StrategyFails("integrate")
          /\ UNCHANGED <<head, local, anc, nextc>>
    /\ UNCHANGED <<origin, dirty, tags, pushed, args, ver, exit_code, start, pure>>

\* merge-squash: git_repo.git.commit('-m', commit_msg); git refuses a commit
\* with nothing staged
SquashCommit ==
    /\ pc = "squash_commit"
    /\ \/ /\ ~IsAncestor(local[working_branch], local[release_branch]) \/ dirty
          /\ nextc <= MaxCommit
          /\ local' = LocalAfterCommit(release_branch)
          /\ anc' = AncAfterCommit(release_branch)
          /\ nextc' = nextc + 1
          /\ StrategyStep("squash_commit", "delete_backup")
       \/ StrategyFails("squash_commit") /\ UNCHANGED <<local, anc, nextc>>
    /\ UNCHANGED <<head, origin, dirty, tags, pushed, args, ver, exit_code, start, pure>>

\* Mutant of DeleteBackup: the clean-up is reported but the branch is kept.
DeleteBackupKeeps ==
    /\ pc = "delete_backup"
    /\ StrategyStep("delete_backup", "record_branch")
    /\ UNCHANGED <<repo, args, ver, exit_code, start, pure>>

\* Clean up the backup branch: git_repo.git.branch('-D', backup_branch)
DeleteBackup ==
    /\ pc = "delete_backup"
    /\ \/ /\ local[BackupName] # NoCommit
          /\ head # BackupName
          /\ local' = [local EXCEPT ![BackupName] = NoCommit]
          /\ StrategyStep("delete_backup", "record_branch")
       \/ StrategyFails("delete_backup") /\ UNCHANGED local
    /\ UNCHANGED <<head, origin, anc, nextc, dirty, tags, pushed, args, ver, exit_code, start, pure>>

\* Record the branch we're on after merge strategy
RecordBranch ==
    /\ pc = "record_branch"
    /\ current_branch' = head
    /\ Did("reconciled")
    /\ pc' = "find_version"
    /\ UNCHANGED <<repo, release_branch, working_branch, merge_strategy, ver, exit_code,
                   failed, start, pure>>

\* Mutant of StrategyError: the handler removes the backup branch before it asks.
StrategyErrorCleansUp ==
    /\ pc = "strategy_error"
    /\ local' = [local EXCEPT ![BackupName] = NoCommit]
    /\ \/ /\ Did("confirm_continue")
          /\ pc' = "find_version"
          /\ UNCHANGED exit_code
       \/ /\ Exit(0)
          /\ UNCHANGED done
    /\ UNCHANGED <<head, origin, anc, nextc, dirty, tags, pushed, args, ver, failed, start, pure>>

\* Mutant of StrategyError: the release goes on without asking the operator.
StrategyErrorContinues ==
    /\ pc = "strategy_error"
    /\ pc' = "find_version"
    /\ UNCHANGED <<repo, args, ver, exit_code, done, failed, start, pure>>

\* except git.GitCommandError: "Continue release from current branch?"; no
\* cancels the release with sys.exit(0), yes goes on to the version steps
StrategyError ==
    /\ pc = "strategy_error"
    /\ \/ /\ Did("confirm_continue")
          /\ pc' = "find_version"
          /\ UNCHANGED exit_code
       \/ /\ Exit(0)
          /\ UNCHANGED done
    /\ UNCHANGED <<repo, args, ver, failed, start, pure>>

\* ------------------------------------------------------------------ VersionFinder
\* checkout_branch (of VersionFinder and of VersionUpdater): True when it switched
\* to the version branch.  A detached HEAD makes active_branch.name raise, which
\* is caught; so is a failed checkout.
CheckoutVersionBranch(next) ==
    /\ original_branch' = IF head = Detached THEN "" ELSE head
    /\ \/ /\ head # Detached
          /\ BranchExists(VersionBranch)
          /\ head # VersionBranch
          /\ \/ /\ head' = VersionBranch
                /\ local' = LocalAfterCheckout(VersionBranch)
                /\ switched_branch' = TRUE
             \/ /\ switched_branch' = FALSE
                /\ UNCHANGED <<head, local>>
       \/ /\ head = Detached \/ ~BranchExists(VersionBranch) \/ head = VersionBranch
          /\ switched_branch' = FALSE
          /\ UNCHANGED <<head, local>>
    /\ pc' = next

\* Mutant of RestoreBranch: nothing is checked out and nothing is reported.
RestoreBranchSkipped(warning) == UNCHANGED <<head, done>>

\* restore_branch, called from the finally clause when switched_branch is set;
\* a failed checkout is caught and reported as the given warning.
RestoreBranch(warning) ==
    IF switched_branch /\ original_branch # "" /\ original_branch # VersionBranch
    THEN \/ head' = original_branch /\ UNCHANGED done
         \/ UNCHANGED head /\ Did(warning)
    ELSE UNCHANGED <<head, done>>

\* The fields of the VersionFinder are not read after its call.
Returned == original_branch' = "" /\ switched_branch' = FALSE

\* get_current_version: switch to the version branch if needed
FinderCheckout ==
    /\ pc = "find_version"
    /\ CheckoutVersionBranch("finder_search")
    /\ UNCHANGED <<origin, anc, nextc, dirty, tags, pushed, args, current_version,
                   version_file_path, changes_committed, raised, dry_run, exit_code,
                   done, failed, start, pure>>

\* get_current_version: a version file, else the latest tag, else (None, None,
\* None); an exception in the search (os.walk, os.listdir) leaves through the
\* finally clause
FinderSearch ==
    /\ pc = "finder_search"
    /\ \E src \in {"file", "tag", "none", "raise"} :
        /\ src = "tag" => tags # {}
        /\ current_version' = IF src \in {"none", "raise"} THEN "" ELSE "found"
        /\ version_file_path' = (src = "file")
        /\ raised' = (src = "raise")
    /\ pc' = "finder_restore"
    /\ UNCHANGED <<repo, args, original_branch, switched_branch, changes_committed,
                   dry_run, exit_code, done, failed, start, pure>>

\* Mutant of FinderRestore: the branch is restored on a normal return only.
FinderRestoreNoFinally ==
    /\ pc = "finder_restore"
    /\ IF raised THEN UNCHANGED <<head, done>> ELSE RestoreBranch("finder_restore_failed")
    /\ pc' = IF raised THEN "error_handler" ELSE "seed_version"
    /\ UNCHANGED <<local, origin, anc, nextc, dirty, tags, pushed, args, original_branch,
                   switched_branch, current_version, version_file_path, changes_committed,
                   raised, dry_run, exit_code, failed, start, pure>>

\* get_current_version: finally, restore the original branch
FinderRestore ==
    /\ pc = "finder_restore"
    /\ RestoreBranch("finder_restore_failed")
    /\ pc' = IF raised THEN "error_handler" ELSE "seed_version"
    /\ UNCHANGED <<local, origin, anc, nextc, dirty, tags, pushed, args, original_branch,
                   switched_branch, current_version, version_file_path, changes_committed,
                   raised, dry_run, exit_code, failed, start, pure>>

\* pattern_used: the finder returns a pattern only together with a version file;
\* the seed and the version typed by hand leave it None (FALSE)
pattern_used == current_version = "found" /\ version_file_path

\* No version information found: "start with version 0.1.0?" (yes also names a
\* version file to store it), or enter the current version by hand
SeedVersion ==
    /\ pc = "seed_version"
    /\ IF current_version = ""
       THEN \/ current_version' = "0.1.0" /\ version_file_path' = TRUE
            \/ current_version' = "typed" /\ UNCHANGED version_file_path
       ELSE UNCHANGED <<current_version, version_file_path>>
    /\ Returned
    /\ pc' = "dry_run"
    /\ UNCHANGED <<repo, args, changes_committed, raised, dry_run, exit_code, done, failed,
                   start, pure>>

\* if dry_run: report and return
DryRun ==
    /\ pc = "dry_run"
    /\ \/ /\ dry_run' = "yes"
          /\ Exit(0)
       \/ /\ dry_run' = "no"
          /\ pc' = IF version_file_path THEN "updater_checkout" ELSE "create_tag"
          /\ UNCHANGED exit_code
    /\ UNCHANGED <<repo, args, original_branch, switched_branch, current_version,
                   version_file_path, changes_committed, raised, done, failed, start, pure>>

\* ------------------------------------------------------------------ VersionUpdater
\* update_version: switch to the version branch if needed
UpdaterCheckout ==
    /\ pc = "updater_checkout"
    /\ CheckoutVersionBranch("updater_write")
    /\ UNCHANGED <<origin, anc, nextc, dirty, tags, pushed, args, current_version,
                   version_file_path, changes_committed, raised, dry_run, exit_code,
                   done, failed, start, pure>>

\* update_version: read the file, substitute with re.sub(self.pattern, ...), write
\* it back; an error (an unreadable file, a pattern of None) is re-raised
UpdaterWrite ==
    /\ pc = "updater_write"
    /\ \/ /\ pattern_used
          /\ pc' = IF switched_branch THEN "updater_commit" ELSE "updater_restore"
          /\ Did("write")
          /\ UNCHANGED raised
       \/ /\ raised' = TRUE
          /\ pc' = "updater_restore"
          /\ UNCHANGED done
    /\ UNCHANGED <<repo, args, original_branch, switched_branch, current_version,
                   version_file_path, changes_committed, dry_run, exit_code, failed, start, pure>>

\* Mutant of UpdaterCommit: changes_committed is set before the commit is tried.
UpdaterCommitSetsEarly ==
    /\ pc = "updater_commit"
    /\ changes_committed' = TRUE
    /\ \/ /\ nextc <= MaxCommit
          /\ local' = LocalAfterCommit(head)
          /\ anc' = AncAfterCommit(head)
          /\ nextc' = nextc + 1
          /\ Did("updater_commit")
          /\ pc' = "updater_push"
       \/ /\ pc' = "updater_restore"
          /\ UNCHANGED <<local, anc, nextc, done>>
    /\ UNCHANGED <<head, origin, dirty, tags, pushed, args, original_branch, switched_branch,
                   current_version, version_file_path, raised, dry_run, exit_code, failed,
                   start, pure>>

\* update_version, on the version branch: git add, git commit; a failure is caught
UpdaterCommit ==
    /\ pc = "updater_commit"
    /\ \/ /\ nextc <= MaxCommit
          /\ local' = LocalAfterCommit(head)
          /\ anc' = AncAfterCommit(head)
          /\ nextc' = nextc + 1
          /\ changes_committed' = TRUE
          /\ Did("updater_commit")
          /\ pc' = "updater_push"
       \/ /\ pc' = "updater_restore"
          /\ UNCHANGED <<local, anc, nextc, changes_committed, done>>
    /\ UNCHANGED <<head, origin, dirty, tags, pushed, args, original_branch, switched_branch,
                   current_version, version_file_path, raised, dry_run, exit_code, failed,
                   start, pure>>

\* update_version: "Push version change to remote?", then git push origin
\* <branch>; a failed push is caught
UpdaterPush ==
    /\ pc = "updater_push"
    /\ \/ /\ pushed' = pushed \cup {VersionBranch}
          /\ origin' = [origin EXCEPT ![VersionBranch] = local[VersionBranch]]
          /\ Did("updater_push")
       \/ UNCHANGED <<pushed, origin, done>>
    /\ pc' = "updater_restore"
    /\ UNCHANGED <<head, local, anc, nextc, dirty, tags, args, ver, exit_code, failed, start, pure>>

\* Mutant of UpdaterRestore: the branch is restored on a normal return only.
UpdaterRestoreNoFinally ==
    /\ pc = "updater_restore"
    /\ IF raised THEN UNCHANGED <<head, done>> ELSE RestoreBranch("updater_restore_failed")
    /\ pc' = IF raised THEN "error_handler"
             ELSE IF changes_committed THEN "create_tag" ELSE "commit_version"
    /\ UNCHANGED <<local, origin, anc, nextc, dirty, tags, pushed, args, original_branch,
                   switched_branch, current_version, version_file_path, changes_committed,
                   raised, dry_run, exit_code, failed, start, pure>>

\* Mutant of UpdaterRestore: create_release commits whatever update_version returned.
UpdaterRestoreIgnoresResult ==
    /\ pc = "updater_restore"
    /\ RestoreBranch("updater_restore_failed")
    /\ pc' = IF raised THEN "error_handler" ELSE "commit_version"
    /\ UNCHANGED <<local, origin, anc, nextc, dirty, tags, pushed, args, original_branch,
                   switched_branch, current_version, version_file_path, changes_committed,
                   raised, dry_run, exit_code, failed, start, pure>>

\* update_version: finally, restore the original branch; then the value is
\* returned, or the error reaches create_release's handler
UpdaterRestore ==
    /\ pc = "updater_restore"
    /\ RestoreBranch("updater_restore_failed")
    /\ pc' = IF raised THEN "error_handler"
             ELSE IF changes_committed THEN "create_tag" ELSE "commit_version"
    /\ UNCHANGED <<local, origin, anc, nextc, dirty, tags, pushed, args, original_branch,
                   switched_branch, current_version, version_file_path, changes_committed,
                   raised, dry_run, exit_code, failed, start, pure>>

\* ------------------------------------------------------------------ create_release, after the update
\* if not changes_committed: git add, git commit 'Bump version to <new>'
CommitVersion ==
    /\ pc = "commit_version"
    /\ \/ /\ nextc <= MaxCommit
          /\ local' = LocalAfterCommit(head)
          /\ anc' = AncAfterCommit(head)
          /\ nextc' = nextc + 1
          /\ Did("commit_version")
          /\ pc' = "create_tag"
       \/ /\ pc' = "error_handler"
          /\ UNCHANGED <<local, anc, nextc, done>>
    /\ UNCHANGED <<head, origin, dirty, tags, pushed, args, ver, exit_code, failed, start, pure>>

\* Mutant of CreateTag: the release goes on to the pushes without a tag.
CreateTagSkipped ==
    /\ pc = "create_tag"
    /\ pc' = "push_branch"
    /\ UNCHANGED <<repo, args, ver, exit_code, done, failed, start, pure>>

\* git_repo.create_tag(tag_name)
CreateTag ==
    /\ pc = "create_tag"
    /\ \/ /\ TagName \notin tags
          /\ tags' = tags \cup {TagName}
          /\ Did("tag")
          /\ pc' = "push_branch"
       \/ /\ pc' = "error_handler"
          /\ UNCHANGED <<tags, done>>
    /\ UNCHANGED <<head, local, origin, anc, nextc, dirty, pushed, args, ver, exit_code,
                   failed, start, pure>>

\* current_branch = git_repo.active_branch.name (raises on a detached HEAD);
\* git push origin <current_branch>
PushBranch ==
    /\ pc = "push_branch"
    /\ \/ /\ head # Detached
          /\ current_branch' = head
          /\ pushed' = pushed \cup {head}
          /\ origin' = [origin EXCEPT ![head] = local[head]]
          /\ Did("push_branch")
          /\ pc' = "push_tag"
       \/ /\ current_branch' = IF head = Detached THEN current_branch ELSE head
          /\ pc' = "error_handler"
          /\ UNCHANGED <<pushed, origin, done>>
    /\ UNCHANGED <<head, local, anc, nextc, dirty, tags, release_branch, working_branch,
                   merge_strategy, ver, exit_code, failed, start, pure>>

\* git push origin <tag_name>
PushTag ==
    /\ pc = "push_tag"
    /\ \/ /\ pushed' = pushed \cup {TagName}
          /\ Did("push_tag")
          /\ pc' = "publish"
       \/ /\ pc' = "error_handler"
          /\ UNCHANGED <<pushed, done>>
    /\ UNCHANGED <<head, local, origin, anc, nextc, dirty, tags, args, ver, exit_code,
                   failed, start, pure>>

\* GitHubClient(), which raises ValueError without a token, then
\* create_release(...), which raises when the request fails
PublishRelease ==
    /\ pc = "publish"
    /\ \/ Did("publish") /\ pc' = "switch_back"
       \/ pc' = "error_handler" /\ Did("credential_missing")
       \/ pc' = "error_handler" /\ UNCHANGED done
    /\ UNCHANGED <<repo, args, ver, exit_code, failed, start, pure>>

\* "Switch back to working branch?": yes checks it out (a failure is reported,
\* not raised); then the command returns
SwitchBack ==
    /\ pc = "switch_back"
    /\ IF working_branch # head
       THEN \/ /\ CanCheckout(working_branch)
               /\ head' = working_branch
               /\ local' = LocalAfterCheckout(working_branch)
               /\ Did("switch_back")
            \/ UNCHANGED <<head, local, done>>
       ELSE UNCHANGED <<head, local, done>>
    /\ Exit(0)
    /\ UNCHANGED <<origin, anc, nextc, dirty, tags, pushed, args, ver, failed, start, pure>>

\* Mutant of ErrorHandler: the tag of the failed release is deleted again.
ErrorHandlerUnwinds ==
    /\ pc = "error_handler"
    /\ tags' = tags \ {TagName}
    /\ Exit(1)
    /\ UNCHANGED <<head, local, origin, anc, nextc, dirty, pushed, args, ver, done, failed,
                   start, pure>>

\* Mutant of ErrorHandler: no branch is checked out.
ErrorHandlerNoRestore ==
    /\ pc = "error_handler"
    /\ Exit(1)
    /\ UNCHANGED <<repo, args, ver, done, failed, start, pure>>

\* except Exception: try to restore the working branch, then sys.exit(1).  The
\* condition working_branch != git_repo.active_branch.name is evaluated outside
\* the inner try: with git_repo unbound, or on a detached HEAD, it raises inside
\* the handler and the command ends with that exception (status 1), no checkout.
\* A failed checkout is passed over.
ErrorHandler ==
    /\ pc = "error_handler"
    /\ IF failed = "open_repo" \/ head = Detached
       THEN Did("handler_raised") /\ UNCHANGED <<head, local>>
       ELSE IF working_branch # head
       THEN \/ /\ CanCheckout(working_branch)
               /\ head' = working_branch
               /\ local' = LocalAfterCheckout(working_branch)
               /\ Did("restore_working")
            \/ /\ Did("restore_working_failed")
               /\ UNCHANGED <<head, local>>
       ELSE UNCHANGED <<head, local, done>>
    /\ Exit(1)
    /\ UNCHANGED <<origin, anc, nextc, dirty, tags, pushed, args, ver, failed, start, pure>>

Next ==
    \/ GetCurrentBranch
    \/ CheckReleaseBranch
    \/ CheckWorkingBranch
    \/ SwitchToWorking
    \/ ChooseStrategy
    \/ CheckoutWarn
    \/ CheckoutRelease
    \/ FetchRelease
    \/ FetchWorking
    \/ CreateBackup
    \/ BackToWorking
    \/ ToRelease
    \/ PullRelease
    \/ Integrate
    \/ SquashCommit
    \/ DeleteBackup
    \/ RecordBranch
    \/ StrategyError
    \/ FinderCheckout
    \/ FinderSearch
    \/ FinderRestore
    \/ SeedVersion
    \/ DryRun
    \/ UpdaterCheckout
    \/ UpdaterWrite
    \/ UpdaterCommit
    \/ UpdaterPush
    \/ UpdaterRestore
    \/ CommitVersion
    \/ CreateTag
    \/ PushBranch
    \/ PushTag
    \/ PublishRelease
    \/ SwitchBack
    \/ ErrorHandler

Spec == Init /\ [][Next]_vars

\* ------------------------------------------------------------------ properties
\* Whether the name existed, locally or as origin/<name>, when the command started.
ExistedAtStart(b) ==
    b \in RefNames /\ (start.local[b] # NoCommit \/ start.origin[b] # NoCommit)
\* The tip a name resolved to when the command started.
TipAtStart(b) ==
    IF b \notin RefNames THEN NoCommit
    ELSE IF start.local[b] # NoCommit THEN start.local[b] ELSE start.origin[b]
\* Nothing has been done to the repository.
RepositoryUntouched ==
    /\ done = {}
    /\ head = start.head
    /\ local = start.local
    /\ origin = start.origin
    /\ tags = {}
    /\ pushed = {}
    /\ nextc = 5
\* The steps that write the version file, commit, tag or push.
ReleaseSteps ==
    {"write", "updater_commit", "updater_push", "commit_version", "tag", "push_branch",
     "push_tag", "publish"}
\* The strategy steps at which a failure counts as a failure of the checkout of the
\* release branch or of the integration.
IntegrationSteps == {"checkout_release", "to_release", "integrate", "squash_commit"}

\* C1: when the release branch, or a working branch other than the current one,
\* exists neither locally nor as origin/<name>, the command exits with status 1
\* and has done nothing to the repository.
C1_MissingBranchExits ==
    (/\ release_branch # ""
     /\ \/ ~ExistedAtStart(release_branch)
        \/ working_branch # start.head /\ ~ExistedAtStart(working_branch))
    => /\ pc \in {"check_release", "check_working", "exited"}
       /\ pc = "exited" => exit_code = 1
       /\ RepositoryUntouched
C1_Witness ==
    /\ pc = "exited"
    /\ exit_code = 1
    /\ ExistedAtStart(release_branch)
    /\ working_branch # start.head
    /\ ~ExistedAtStart(working_branch)

\* C2: when rebase, merge or merge-squash has completed without a git error, the
\* backup branch is gone and the release branch is checked out.
C2_BackupGoneOnRelease ==
    (merge_strategy \in BackupStrategies /\ pc = "record_branch")
    => local[BackupName] = NoCommit /\ head = release_branch
C2_Witness ==
    /\ merge_strategy \in BackupStrategies
    /\ pc = "record_branch"
    /\ "create_backup" \in done

\* C3: when a git command of the strategy fails after the backup branch was made
\* and before the integration is complete, the backup branch exists from then
\* on, whether the release is cancelled or goes on.
C3_BackupKeptOnFailure ==
    ("create_backup" \in done
        /\ failed \in {"back_to_working", "to_release", "integrate", "squash_commit"})
    => /\ local[BackupName] # NoCommit
       /\ IsAncestor(TipAtStart(working_branch), local[BackupName])
C3_Witness ==
    /\ "create_backup" \in done
    /\ failed = "integrate"
    /\ pc = "exited"
    /\ "confirm_continue" \in done

\* C4: in rebase, merge and merge-squash the steps come in the order fetch of the
\* release branch, fetch of the working branch, backup branch made from the
\* working branch's tip, checkout of the release branch, pull, integration,
\* deletion of the backup; no integration is tried before the backup exists.
StrategyOrder ==
    /\ "fetch_working" \in done => "fetch_release" \in done
    /\ "create_backup" \in done => "fetch_working" \in done
    /\ pc = "back_to_working" => local[BackupName] = TipAtStart(working_branch)
    /\ "to_release" \in done => "create_backup" \in done
    /\ (pc = "pull_release" \/ done \cap {"pull", "pull_failed"} # {}) => "to_release" \in done
    /\ (pc \in {"integrate", "squash_commit"} \/ "integrate" \in done \/ failed = "integrate")
        => /\ done \cap {"pull", "pull_failed"} # {}
           /\ local[BackupName] # NoCommit \/ "delete_backup" \in done
    /\ (pc = "delete_backup" \/ "delete_backup" \in done) => "integrate" \in done
    /\ (merge_strategy = "merge-squash" /\ "delete_backup" \in done) => "squash_commit" \in done
C4_StrategyOrder == []StrategyOrder /\ [][Cardinality(done' \ done) <= 1]_vars
C4_Witness ==
    /\ merge_strategy = "merge-squash"
    /\ "delete_backup" \in done
    /\ "pull" \in done

\* C5: after a successful rebase or merge, every commit that was reachable from
\* the working branch's tip at the start is reachable from the release branch's tip.
C5_WorkingCommitsOnRelease ==
    (merge_strategy \in {"rebase", "merge"} /\ "integrate" \in done)
    => anc[TipAtStart(working_branch)] \subseteq anc[local[release_branch]]
C5_Witness ==
    /\ merge_strategy = "merge"
    /\ "integrate" \in done
    /\ ~IsAncestor(TipAtStart(working_branch), TipAtStart(release_branch))
    /\ ~IsAncestor(TipAtStart(release_branch), TipAtStart(working_branch))

\* C6: after a successful rebase the tip the release branch had before the
\* operation is an ancestor of its new tip (its own commits are not rewritten).
C6_ReleaseTipKept ==
    (merge_strategy = "rebase" /\ "integrate" \in done)
    => IsAncestor(TipAtStart(release_branch), local[release_branch])

\* C7: the checkout strategy adds no commit to the release branch and makes no
\* backup branch: until the version commit the release branch's tip is the one it
\* had at the start.
C7_CheckoutAddsNothing ==
    (merge_strategy = "checkout" /\ "commit_version" \notin done)
    => /\ local[BackupName] = NoCommit
       /\ "create_backup" \notin done
       /\ local[release_branch] \in {NoCommit, TipAtStart(release_branch)}
       /\ "checkout_release" \in done => local[release_branch] = TipAtStart(release_branch)
C7_Witness ==
    /\ merge_strategy = "checkout"
    /\ pc = "record_branch"
    /\ ~IsAncestor(TipAtStart(working_branch), local[release_branch])

\* C8 as stated: under the checkout strategy the release branch is checked out
\* only after the operator has confirmed.
C8_AlwaysConfirmed ==
    (merge_strategy = "checkout" /\ "checkout_release" \in done)
    => "confirm_checkout" \in done
\* C8: under the checkout strategy, when the working branch is not the branch the
\* command started on, the release branch is checked out only after the operator
\* has confirmed, and a negative answer ends the command with status 0 and the
\* release branch not checked out; when the working branch is the branch the
\* command started on, the release branch is checked out without asking.
C8_ConfirmedWhenSwitched ==
    merge_strategy = "checkout"
    => /\ (working_branch # start.head
            /\ (pc = "checkout_release" \/ "checkout_release" \in done
                    \/ failed = "checkout_release"))
          => "confirm_checkout" \in done
       /\ (working_branch # start.head /\ "confirm_checkout" \notin done /\ pc = "exited")
          => exit_code = 0 /\ head # release_branch /\ done \cap ReleaseSteps = {}
       /\ working_branch = start.head => "confirm_checkout" \notin done
C8_Witness ==
    /\ merge_strategy = "checkout"
    /\ working_branch # start.head
    /\ "checkout_release" \in done

\* C9 as stated: a git failure during the checkout of the release branch or the
\* integration ends the command with a non-zero status and without a version
\* write, commit, tag or push.
C9_FailureIsFatal ==
    (failed \in IntegrationSteps /\ pc = "exited")
    => exit_code # 0 /\ done \cap ReleaseSteps = {}
\* C9: a git failure during the checkout of the release branch or the integration
\* aborts the strategy and the operator is asked whether to go on: without an
\* affirmative answer the command ends with status 0 and without a version write,
\* commit, tag or push; the release goes on only after an affirmative answer.
C9_FailureAsksOperator ==
    failed \in IntegrationSteps
    => /\ failed \notin done
       /\ done \cap {"delete_backup", "reconciled"} = {}
       /\ "confirm_continue" \notin done
          => /\ pc \in {"strategy_error", "exited"}
             /\ pc = "exited" => exit_code = 0
             /\ done \cap ReleaseSteps = {}
C9_Witness ==
    /\ failed = "integrate"
    /\ pc = "exited"
    /\ "confirm_continue" \notin done

\* C10: with a dirty working tree at the start the command fails with a non-zero
\* status before any branch switch, backup, integration, commit, tag or push.
C10_DirtyTreeFailsFirst ==
    (start.dirty /\ pc # "start")
    => /\ RepositoryUntouched
       /\ pc = "exited" => exit_code # 0

\* get_current_version has just returned, or raised into create_release's handler.
FinderReturned == pc = "seed_version" \/ (pc = "error_handler" /\ raised /\ dry_run = "unset")
\* update_version has returned or raised, and nothing has changed the branch since.
UpdaterReturned ==
    /\ dry_run = "no"
    /\ pc \in {"commit_version", "create_tag", "push_branch", "push_tag", "publish",
               "switch_back", "error_handler"}

\* C11 as stated: whenever get_current_version switched to the search branch, the
\* branch checked out when it returns or raises is the one checked out at the call.
C11_FinderAlwaysRestores ==
    (FinderReturned /\ switched_branch) => head = original_branch
\* C11: get_current_version with a search branch that exists and differs from the
\* checked-out branch searches on that branch and on every exit path tries to
\* check out the original branch again: the original branch is checked out at
\* the return unless that checkout fails, in which case the failure is reported
\* as a warning and the search branch stays checked out.
C11_FinderRestoresUnlessCheckoutFails ==
    /\ (pc \in {"finder_search", "finder_restore"} /\ switched_branch)
       => head = VersionBranch /\ original_branch \notin {"", VersionBranch}
    /\ (FinderReturned /\ switched_branch)
       => /\ "finder_restore_failed" \notin done => head = original_branch
          /\ "finder_restore_failed" \in done => head = VersionBranch
C11_Witness ==
    /\ pc = "error_handler"
    /\ raised
    /\ dry_run = "unset"
    /\ switched_branch
    /\ head = original_branch

\* C12 as stated: whenever update_version switched to the version branch, the
\* branch checked out when it returns or raises is the one checked out at the call.
C12_UpdaterAlwaysRestores ==
    (UpdaterReturned /\ switched_branch) => head = original_branch
\* C12: update_version that switched to the version branch tries, on every exit
\* path, to check out the original branch again: the original branch is checked
\* out when it returns or raises unless that checkout fails, in which case the
\* failure is reported as a warning and the version branch stays checked out.
C12_UpdaterRestoresUnlessCheckoutFails ==
    /\ (pc \in {"updater_write", "updater_commit", "updater_push", "updater_restore"}
            /\ switched_branch)
       => head = VersionBranch /\ original_branch \notin {"", VersionBranch}
    /\ (UpdaterReturned /\ switched_branch)
       => /\ "updater_restore_failed" \notin done => head = original_branch
          /\ "updater_restore_failed" \in done => head = VersionBranch
C12_Witness ==
    /\ pc = "error_handler"
    /\ raised
    /\ dry_run = "no"
    /\ switched_branch
    /\ head = original_branch

\* C13: update_version returns true exactly when it switched to the version branch
\* and committed there; without a switch it writes the file, makes no commit and
\* returns false.
C13_ReturnsTrueIffCommitted ==
    (pc \in {"commit_version", "create_tag"} /\ "write" \in done
        /\ "commit_version" \notin done)
    => /\ changes_committed <=> (switched_branch /\ "updater_commit" \in done)
       /\ ~switched_branch => ("updater_commit" \notin done /\ ~changes_committed)
       /\ changes_committed <=> pc = "create_tag"
C13_Witness ==
    /\ pc = "commit_version"
    /\ "write" \in done
    /\ ~switched_branch
    /\ BranchExists(VersionBranch)

\* C14: in a release with a version file the version change is committed once: by
\* the updater when update_version returned true, else by create_release; never
\* by both.
C14_CommittedOnce ==
    /\ ~("updater_commit" \in done /\ "commit_version" \in done)
    /\ "updater_commit" \in done => changes_committed
    /\ "commit_version" \in done => ~changes_committed
    /\ ("tag" \in done /\ version_file_path)
       => ("updater_commit" \in done \/ "commit_version" \in done)
C14_Witness ==
    /\ "tag" \in done
    /\ "commit_version" \in done
    /\ switched_branch

\* C20: when no version is found and the operator accepts the seed 0.1.0, a
\* release that is not a dry run does not end with update_version raising.
C20_SeedRecovers ==
    (current_version = "0.1.0" /\ dry_run = "no" /\ pc = "exited") => ~raised

\* ------------------------------------------------------------------ get_current_version, the search
\* The length of the list _get_common_version_locations returns.
MaxCandidates == 3
\* The number of calls of get_current_version in a row.
MaxCalls == 2
\* os.path.exists and _extract_version see a location as "absent", as a file the
\* pattern does not match, or as a file it matches.
FileStates == {"absent", "nomatch", "match"}
None == <<>>
\* (None, None, None)
NotFound == <<None, None, None>>
\* The trees a branch can hold: the file named by --version-file and the
\* candidates of the convention list, in list order.
Trees ==
    [custom : FileStates, candidates : [1..MaxCandidates -> FileStates]]
VersionBranchTrees ==
    {[custom |-> c, candidates |-> [i \in 1..MaxCandidates |-> IF i = MaxCandidates THEN l ELSE c]] :
        c \in {"absent", "match"}, l \in {"match"}}
        \cup {[custom |-> "nomatch", candidates |-> [i \in 1..MaxCandidates |-> "absent"]]}
\* git_repo.tags, in ref order; time is the commit time of the tagged commit.
TagLists ==
    { <<>>,
      <<[name |-> <<"v", "0.9.0">>, time |-> 1]>>,
      <<[name |-> <<"0.8.0">>, time |-> 2], [name |-> <<"v", "0.9.0">>, time |-> 1]>>,
      <<[name |-> <<"v", "0.9.0">>, time |-> 2], [name |-> <<"v", "1.0.0">>, time |-> 2]>>,
      <<[name |-> <<"rollback-", "v", "0.9.0">>, time |-> 3],
        [name |-> <<"v", "0.9.0">>, time |-> 1]>> }

\* What a matching file at a location yields: its version, its path, its pattern.
VersionIn(loc) == <<"version in", loc>>
PathOf(loc) == <<"path of", loc>>
PatternOf(loc) == <<"pattern of", loc>>
\* _extract_version: the named group of the match, None without a match
ExtractVersion(state, loc) == IF state = "match" THEN VersionIn(loc) ELSE None

\* Mutant of SearchLocations: the list is walked from its end.
RECURSIVE SearchLocationsBackwards(_, _)
SearchLocationsBackwards(tree, i) ==
    LET j == MaxCandidates + 1 - i IN
    IF i > MaxCandidates THEN NotFound
    ELSE IF tree.candidates[j] # "absent" /\ ExtractVersion(tree.candidates[j], ToString(j)) # None
         THEN <<ExtractVersion(tree.candidates[j], ToString(j)), PathOf(ToString(j)),
                PatternOf(ToString(j))>>
         ELSE SearchLocationsBackwards(tree, i + 1)

\* for file_path, pattern in version_locations: the first that exists and matches
RECURSIVE SearchLocations(_, _)
SearchLocations(tree, i) ==
    IF i > MaxCandidates THEN NotFound
    ELSE IF tree.candidates[i] # "absent" /\ ExtractVersion(tree.candidates[i], ToString(i)) # None
         THEN <<ExtractVersion(tree.candidates[i], ToString(i)), PathOf(ToString(i)),
                PatternOf(ToString(i))>>
         ELSE SearchLocations(tree, i + 1)

\* Mutant of InsertByTime: the tags stay in ref order.
InsertInRefOrder(sorted, t) == Append(sorted, t)

\* sorted(self.git_repo.tags, key=lambda t: t.commit.committed_datetime): a
\* stable sort, here by insertion
RECURSIVE InsertByTime(_, _)
InsertByTime(sorted, t) ==
    IF sorted = <<>> \/ sorted[Len(sorted)].time <= t.time THEN Append(sorted, t)
    ELSE Append(InsertByTime(SubSeq(sorted, 1, Len(sorted) - 1), t), sorted[Len(sorted)])
RECURSIVE SortedByTime(_)
SortedByTime(ts) ==
    IF ts = <<>> THEN <<>>
    ELSE InsertByTime(SortedByTime(SubSeq(ts, 1, Len(ts) - 1)), ts[Len(ts)])
\* latest_tag[1:] if latest_tag.startswith('v') else latest_tag
StripV(name) == IF name # <<>> /\ Head(name) = "v" THEN Tail(name) ELSE name
\* Try to find the latest tag
FromTags(ts) ==
    IF ts = <<>> THEN NotFound
    ELSE <<StripV(SortedByTime(ts)[Len(ts)].name), None, None>>

\* The search of get_current_version in the checked-out tree.
GetCurrentVersion(tree, given, ts) ==
    IF given /\ tree.custom # "absent" /\ ExtractVersion(tree.custom, "custom") # None
    THEN <<ExtractVersion(tree.custom, "custom"), PathOf("custom"), PatternOf("custom")>>
    ELSE IF SearchLocations(tree, 1) # NotFound THEN SearchLocations(tree, 1)
    ELSE FromTags(ts)

FinderInit ==
    /\ pc = "find_version"
    /\ head = "main"
    /\ \E v \in {NoCommit, 1} :
        local = [b \in RefNames |-> IF b = "main" THEN 1 ELSE IF b = VersionBranch THEN v
                                    ELSE NoCommit]
    /\ origin = [b \in RefNames |-> NoCommit]
    /\ anc = InitAnc
    /\ nextc = 5
    /\ dirty = FALSE
    /\ tags = {}
    /\ pushed = {}
    /\ release_branch = "main"
    /\ working_branch = "main"
    /\ current_branch = "main"
    /\ merge_strategy = ""
    /\ exit_code = -1
    /\ original_branch = ""
    /\ switched_branch = FALSE
    /\ current_version = None
    /\ version_file_path = FALSE
    /\ changes_committed = FALSE
    /\ raised = FALSE
    /\ dry_run = "unset"
    /\ done = {}
    /\ failed = ""
    /\ start = [head |-> head, local |-> local, origin |-> origin, dirty |-> dirty]
    /\ \E t \in Trees, vt \in VersionBranchTrees :
        /\ local[VersionBranch] = NoCommit => vt = CHOOSE x \in VersionBranchTrees : TRUE
        /\ files = [b \in {"main", VersionBranch} |-> IF b = "main" THEN t ELSE vt]
    /\ custom_version_file \in BOOLEAN
    /\ tag_list \in TagLists
    /\ returned = <<>>
    /\ type = ""
    /\ new_version = ""
    /\ tag = ""
    /\ staged = FALSE
    /\ github_authenticated = FALSE

\* get_current_version between checkout_branch and the finally clause: the search
\* in the tree of the checked-out branch, or an exception
FinderSearchFiles ==
    /\ pc = "finder_search"
    /\ \/ LET r == GetCurrentVersion(files[head], custom_version_file, tag_list) IN
            /\ returned' = Append(returned, r)
            /\ current_version' = r[1]
            /\ version_file_path' = (r[2] # None)
            /\ UNCHANGED raised
       \/ /\ raised' = TRUE
          /\ UNCHANGED <<returned, current_version, version_file_path>>
    /\ Did(IF head = VersionBranch THEN "searched_version_branch" ELSE "searched_current_branch")
    /\ pc' = "finder_restore"
    /\ UNCHANGED <<repo, args, original_branch, switched_branch, changes_committed, dry_run,
                   exit_code, failed, start, files, custom_version_file, tag_list, type,
                   new_version, rollback_vars>>

\* get_current_version is called again, nothing having changed in between
CallAgain ==
    /\ pc = "seed_version"
    /\ Len(returned) < MaxCalls
    /\ pc' = "find_version"
    /\ UNCHANGED <<repo, args, ver, exit_code, done, failed, start, pure>>

FinderNext ==
    \/ FinderCheckout
    \/ FinderSearchFiles
    \/ FinderRestore
    \/ CallAgain

SpecFinder == FinderInit /\ [][FinderNext]_vars

\* The search of the last call has returned a value; the finally clause is next.
SearchDone == pc = "finder_restore" /\ ~raised /\ returned # <<>>
LastReturned == returned[Len(returned)]
\* The explicit version file counts: it was given, exists and matches.
CustomMatches(tree) == custom_version_file /\ tree.custom = "match"
\* No file of the tree yields a version.
NoFileMatches(tree) ==
    ~CustomMatches(tree) /\ \A i \in 1..MaxCandidates : tree.candidates[i] # "match"

\* C16: get_current_version returns the version of the explicit version file when
\* it exists and matches; else of the first candidate, in list order, that exists
\* and matches; else of the tags; else (None, None, None).
C16_SearchOrder ==
    SearchDone =>
        LET tree == files[head]
            r == LastReturned
        IN /\ CustomMatches(tree)
              => r = <<VersionIn("custom"), PathOf("custom"), PatternOf("custom")>>
           /\ \A i \in 1..MaxCandidates :
                (/\ ~CustomMatches(tree)
                 /\ tree.candidates[i] = "match"
                 /\ \A j \in 1..(i - 1) : tree.candidates[j] # "match")
                => r = <<VersionIn(ToString(i)), PathOf(ToString(i)), PatternOf(ToString(i))>>
           /\ (NoFileMatches(tree) /\ tag_list # <<>>)
              => /\ r[2] = None /\ r[3] = None
                 /\ \E k \in 1..Len(tag_list) : r[1] = StripV(tag_list[k].name)
           /\ (NoFileMatches(tree) /\ tag_list = <<>>) => r = NotFound
C16_Witness ==
    /\ SearchDone
    /\ ~CustomMatches(files[head])
    /\ files[head].custom = "match"
    /\ files[head].candidates[1] = "nomatch"
    /\ files[head].candidates[2] = "match"
    /\ files[head].candidates[MaxCandidates] = "match"
    /\ tag_list # <<>>
    /\ LastReturned[2] = PathOf("2")

C38_RollbackTagNotAVersion ==
    (SearchDone /\ LastReturned # NotFound /\ LastReturned[2] = None)
    => Head(LastReturned[1]) # "rollback-"

MaxDigits == 2
DigitChoices == {0, 9}
Components == UNION {[1..n -> DigitChoices] : n \in 1..MaxDigits}
VersionStrings == UNION {[1..n -> Components] : n \in {2, 3}}
ReleaseTypes == {"major", "minor", "patch"}
\* What the operator may enter at "Enter the new version".
TypedVersions == {<<<<1>>, <<0>>, <<0>>>>, <<<<9>>, <<9>>, <<9>>>>}

\* int(): the value of a run of decimal digits
RECURSIVE ToInt(_)
ToInt(digits) ==
    IF digits = <<>> THEN 0
    ELSE 10 * ToInt(SubSeq(digits, 1, Len(digits) - 1)) + digits[Len(digits)]
\* str(): the decimal digits of a non-negative integer
RECURSIVE ToDigits(_)
ToDigits(n) == IF n < 10 THEN <<n>> ELSE Append(ToDigits(n \div 10), n % 10)
\* semver.VersionInfo.parse accepts major.minor.patch, each 0 or a number that
\* does not start with 0; anything else raises ValueError
Parseable(v) == Len(v) = 3 /\ \A i \in 1..3 : Len(v[i]) = 1 \/ v[i][1] # 0
parse(v) == [major |-> ToInt(v[1]), minor |-> ToInt(v[2]), patch |-> ToInt(v[3])]
\* str(VersionInfo)
VersionText(info) == <<ToDigits(info.major), ToDigits(info.minor), ToDigits(info.patch)>>

\* Mutant of bump_minor: the patch part is kept.
bump_minor_keeps_patch(info) == [info EXCEPT !.minor = info.minor + 1]

bump_major(info) == [major |-> info.major + 1, minor |-> 0, patch |-> 0]
bump_minor(info) == [major |-> info.major, minor |-> info.minor + 1, patch |-> 0]
bump_patch(info) == [info EXCEPT !.patch = info.patch + 1]

\* The version the finder returned: a version string, or None when no version
\* file matches and there is no tag.
BumpInit ==
    /\ current_version \in VersionStrings \cup {None}
    /\ pc = IF current_version = None THEN "seed" ELSE "calculate"
    /\ type \in ReleaseTypes
    /\ new_version = ""
    /\ head = "main"
    /\ local = [b \in RefNames |-> IF b = "main" THEN 1 ELSE NoCommit]
    /\ origin = [b \in RefNames |-> NoCommit]
    /\ anc = InitAnc
    /\ nextc = 5
    /\ dirty = FALSE
    /\ tags = {}
    /\ pushed = {}
    /\ release_branch = "main"
    /\ working_branch = "main"
    /\ current_branch = "main"
    /\ merge_strategy = ""
    /\ exit_code = -1
    /\ original_branch = ""
    /\ switched_branch = FALSE
    /\ version_file_path = FALSE
    /\ changes_committed = FALSE
    /\ raised = FALSE
    /\ dry_run = "unset"
    /\ done = {}
    /\ failed = ""
    /\ start = [head |-> head, local |-> local, origin |-> origin, dirty |-> dirty]
    /\ files = <<>>
    /\ custom_version_file = FALSE
    /\ tag_list = <<>>
    /\ returned = <<>>
    /\ tag = ""
    /\ staged = FALSE
    /\ github_authenticated = FALSE

\* No version information found: "Would you like to start with version 0.1.0?",
\* else "Enter the current version"
SeedCurrentVersion ==
    /\ pc = "seed"
    /\ \/ current_version' = <<<<0>>, <<1>>, <<0>>>> /\ Did("start_with_0.1.0")
       \/ current_version' \in TypedVersions /\ UNCHANGED done
    /\ pc' = "calculate"
    /\ UNCHANGED <<repo, args, original_branch, switched_branch, version_file_path,
                   changes_committed, raised, dry_run, exit_code, failed, start, pure>>

\* Calculate new version: parse, then bump by the release type
CalculateVersion ==
    /\ pc = "calculate"
    /\ Parseable(current_version)
    /\ new_version' =
        IF type = "major" THEN VersionText(bump_major(parse(current_version)))
        ELSE IF type = "minor" THEN VersionText(bump_minor(parse(current_version)))
        ELSE VersionText(bump_patch(parse(current_version)))
    /\ pc' = "calculated"
    /\ UNCHANGED <<repo, args, ver, exit_code, done, failed, start, files, custom_version_file,
                   tag_list, returned, type, rollback_vars>>

\* except ValueError: "use 0.1.0 as a starting version?", or enter the new version
InvalidVersion ==
    /\ pc = "calculate"
    /\ ~Parseable(current_version)
    /\ \/ new_version' = <<<<0>>, <<1>>, <<0>>>> /\ Did("confirm_starting_version")
       \/ new_version' \in TypedVersions /\ UNCHANGED done
    /\ pc' = "calculated"
    /\ UNCHANGED <<repo, args, ver, exit_code, failed, start, files, custom_version_file,
                   tag_list, returned, type, rollback_vars>>

BumpNext ==
    \/ SeedCurrentVersion
    \/ CalculateVersion
    \/ InvalidVersion

SpecBump == BumpInit /\ [][BumpNext]_vars

\* C19: for a current version X.Y.Z of non-negative integers a patch release
\* computes X.Y.(Z+1), a minor release X.(Y+1).0 and a major release (X+1).0.0.
C19_Bump ==
    (pc = "calculated" /\ Parseable(current_version))
    => LET X == ToInt(current_version[1])
           Y == ToInt(current_version[2])
           Z == ToInt(current_version[3])
       IN /\ Len(new_version) = 3
          /\ \A i \in 1..3 : Len(new_version[i]) = 1 \/ new_version[i][1] # 0
          /\ type = "patch" => <<ToInt(new_version[1]), ToInt(new_version[2]),
                                 ToInt(new_version[3])>> = <<X, Y, Z + 1>>
          /\ type = "minor" => <<ToInt(new_version[1]), ToInt(new_version[2]),
                                 ToInt(new_version[3])>> = <<X, Y + 1, 0>>
          /\ type = "major" => <<ToInt(new_version[1]), ToInt(new_version[2]),
                                 ToInt(new_version[3])>> = <<X + 1, 0, 0>>
C19_Witness ==
    /\ pc = "calculated"
    /\ type = "minor"
    /\ current_version = <<<<9>>, <<9, 9>>, <<9>>>>
    /\ new_version = <<<<9>>, <<1, 0, 0>>, <<0>>>>

\* C35: when no previous version exists (no version file matches and there is no
\* tag) the new version of the release is 0.1.0, whichever release type is
\* requested.
C35_FirstReleaseIs010 ==
    (pc = "calculated" /\ "start_with_0.1.0" \in done)
    => new_version = <<<<0>>, <<1>>, <<0>>>>

\* ------------------------------------------------------------------ release: order, failures, dry run
\* The steps of the branch reconciliation.
ReconcileSteps ==
    {"switch_working", "confirm_checkout", "checkout_release", "fetch_release",
     "fetch_working", "create_backup", "back_to_working", "to_release", "pull",
     "pull_failed", "integrate", "squash_commit", "delete_backup", "reconciled",
     "confirm_continue"}
\* The version has been located (found, seeded or typed) and the run is no dry run.
Located == dry_run = "no" /\ current_version # ""
ReleaseOrder ==
    /\ done \cap ReleaseSteps # {} => Located
    /\ done \cap {"updater_commit", "commit_version"} # {} => "write" \in done
    /\ "tag" \in done
        => /\ TagName \in tags
           /\ version_file_path
                => /\ "write" \in done
                   /\ done \cap {"updater_commit", "commit_version"} # {}
    /\ "push_branch" \in done => "tag" \in done
    /\ "push_tag" \in done => "push_branch" \in done
    /\ "publish" \in done => "push_tag" \in done
    /\ (pc = "switch_back" \/ "switch_back" \in done) => "publish" \in done
    /\ TagName \notin tags => pushed \subseteq {VersionBranch}

\* C21 as stated: nothing is pushed before the tag exists.
C21_NothingPushedBeforeTag == pushed # {} => TagName \in tags

\* C21: the events of a release come in the order branch reconciliation, version
\* location, version file write, version commit, tag creation, push of the
\* branch, push of the tag, publication, offer to switch back; the tag is never
\* created before the version commit, and before the tag exists nothing is pushed
\* but the version branch, which update_version pushes when the operator agrees.
C21_ReleaseOrder ==
    /\ []ReleaseOrder
    /\ [][/\ Cardinality(done' \ done) <= 1
          /\ dry_run # "unset" => (done' \ done) \cap ReconcileSteps = {}
          /\ done \cap ReleaseSteps # {} => "write" \notin done' \ done
          /\ "tag" \in done => (done' \ done) \cap {"updater_commit", "commit_version"} = {}]_vars
C21_Witness ==
    /\ pc = "exited"
    /\ exit_code = 0
    /\ "reconciled" \in done
    /\ "updater_push" \in done
    /\ "switch_back" \in done
    /\ {"write", "updater_commit", "tag", "push_branch", "push_tag", "publish"} \subseteq done

\* The commit is on some local branch.
Reachable(c) == \E b \in RefNames : local[b] # NoCommit /\ c \in anc[local[b]]
\* The commits made on a branch during this run.
MadeInRun == {c \in Commits : c >= 5 /\ c < nextc /\ anc[c] # {}}
\* The publication of the release has failed.
PublishFailed == pc \in {"error_handler", "exited"} /\ "push_tag" \in done /\ "publish" \notin done

C24_HandlerNeverRaises ==
    /\ "handler_raised" \notin done
    /\ (pc = "exited" /\ failed = "open_repo") => exit_code = 1

\* C25: with --dry-run the release command performs no commit, no tag creation
\* and no push, for every merge strategy and every branch configuration.
C25_DryRunChangesNothing ==
    dry_run = "yes"
    => /\ "squash_commit" \notin done
       /\ MadeInRun = {}
       /\ tags = {}
       /\ pushed = {}

\* C32: in rebase, merge and merge-squash a failed pull of the release branch
\* does not abort the strategy: the integration is attempted next, on the local
\* copy of the release branch, and when it succeeds the backup branch is deleted
\* as on the normal path.
C32_PullFailureNotFatal ==
    /\ [](("pull_failed" \in done /\ failed = ""
            /\ pc \notin {"integrate", "squash_commit", "delete_backup"})
            => /\ {"integrate", "delete_backup"} \subseteq done
               /\ merge_strategy = "merge-squash" => "squash_commit" \in done
               /\ local[BackupName] = NoCommit)
    /\ [][pc = "pull"
            => /\ pc' = "integrate"
               /\ failed' = failed
               /\ "pull_failed" \in done' => UNCHANGED <<local, head>>]_vars
C32_Witness ==
    /\ "pull_failed" \in done
    /\ merge_strategy = "merge"
    /\ "reconciled" \in done
    /\ local[BackupName] = NoCommit
    /\ head = release_branch
    /\ local[release_branch] # TipAtStart(release_branch)

\* C33: when a merge strategy has failed and the operator continues, the version
\* update, the tag creation and the pushes run with the working branch checked
\* out, never with the release branch or a backup branch checked out.
C33_ContinuesOnWorkingBranch ==
    (/\ "confirm_continue" \in done
     /\ pc \in {"updater_checkout", "commit_version", "create_tag", "push_branch", "push_tag"})
    => head \notin {release_branch, BackupName}

\* C34: a dry-run release makes no change to the repository: after it returns the
\* local branches, every branch tip and the checked-out branch are as they were
\* when the command started (also when every checkout that restores a branch
\* has succeeded).
C34_DryRunLeavesBranches ==
    (dry_run = "yes" /\ pc = "exited" /\ "finder_restore_failed" \notin done)
    => /\ head = start.head
       /\ local = start.local

\* C37: a release that cannot be published because no GitHub credential is
\* configured fails before it pushes any branch or tag.
C37_NoPushWithoutCredential ==
    "credential_missing" \in done
    => /\ pushed = {}
       /\ done \cap {"push_branch", "push_tag", "updater_push"} = {}

\* ------------------------------------------------------------------ rollback
\* rollback in src/src/voyager/commands/rollback.py: one run of the command.
\* f'rollback-{tag}-{timestamp}'
RollbackTag == "rollback-tag-timestamp"
\* The commit the target tag points at, and the tip of a rollback branch left by
\* an earlier rollback.
TagCommit == 1
StaleCommit == 2
search_vars == <<files, custom_version_file, tag_list, returned, type, new_version>>

RollbackInit ==
    /\ pc = "rb_start"
    /\ \E v \in {NoCommit, 1}, r \in {NoCommit, StaleCommit} :
        local = [b \in RefNames |->
                    IF b = "main" THEN 3 ELSE IF b = VersionBranch THEN v
                    ELSE IF b = RollbackBranch THEN r ELSE NoCommit]
    /\ head \in {b \in {"main", RollbackBranch} : local[b] # NoCommit}
    /\ origin = [b \in RefNames |-> IF b = "main" THEN 1 ELSE NoCommit]
    /\ anc = InitAnc
    /\ nextc = 5
    /\ dirty = FALSE
    /\ staged \in BOOLEAN
    /\ tags \in {{}, {"v1"}}
    /\ tag \in {"", "v1"}
    /\ pushed = {}
    /\ dry_run \in {"yes", "no"}
    /\ github_authenticated = FALSE
    /\ release_branch = "main"
    /\ working_branch = "main"
    /\ current_branch = "main"
    /\ merge_strategy = ""
    /\ exit_code = -1
    /\ original_branch = ""
    /\ switched_branch = FALSE
    /\ current_version = ""
    /\ version_file_path = FALSE
    /\ changes_committed = FALSE
    /\ raised = FALSE
    /\ done = {}
    /\ failed = ""
    /\ start = [head |-> head, local |-> local, origin |-> origin, dirty |-> dirty]
    /\ files = <<>>
    /\ custom_version_file = FALSE
    /\ tag_list = <<>>
    /\ returned = <<>>
    /\ type = ""
    /\ new_version = ""

\* A step of the command raises: except Exception, sys.exit(1)
RbFails(step) == failed' = step /\ pc' = "rb_error"

\* GitHubClient(required=False): authenticated or not; an error counts as not
RbAuthenticate ==
    /\ pc = "rb_start"
    /\ github_authenticated' \in BOOLEAN
    /\ pc' = "rb_resolve_tag"
    /\ UNCHANGED <<repo, args, ver, exit_code, done, failed, start, search_vars, tag, staged>>

\* If tag is not specified: choose from the GitHub releases, else from the local
\* tags; without any local tag sys.exit(1)
RbResolveTag ==
    /\ pc = "rb_resolve_tag"
    /\ \/ /\ tag # ""
          /\ pc' = "rb_validate_tag"
          /\ UNCHANGED <<tag, exit_code>>
       \/ /\ tag = ""
          /\ github_authenticated
          /\ tag' = "v1"
          /\ pc' = "rb_validate_tag"
          /\ UNCHANGED exit_code
       \/ /\ tag = ""
          /\ tags # {}
          /\ tag' \in tags
          /\ pc' = "rb_validate_tag"
          /\ UNCHANGED exit_code
       \/ /\ tag = ""
          /\ tags = {}
          /\ Exit(1)
          /\ UNCHANGED tag
    /\ UNCHANGED <<repo, args, ver, done, failed, start, search_vars, staged,
                   github_authenticated>>

\* Mutant of RbValidateTag: the tag is not looked up.
RbValidateTagUnchecked ==
    /\ pc = "rb_validate_tag"
    /\ pc' = "rb_confirm"
    /\ UNCHANGED <<repo, args, ver, exit_code, done, failed, start, pure>>

\* Validate the tag exists: git_repo.tags[tag], else sys.exit(1)
RbValidateTag ==
    /\ pc = "rb_validate_tag"
    /\ IF tag \in tags THEN pc' = "rb_confirm" /\ UNCHANGED exit_code ELSE Exit(1)
    /\ UNCHANGED <<repo, args, ver, done, failed, start, pure>>

\* Mutant of RbConfirm: a dry run goes on like a confirmed run.
RbConfirmIgnoresDryRun ==
    /\ pc = "rb_confirm"
    /\ \/ /\ Did("rb_confirmed")
          /\ pc' = "rb_delete_branch"
          /\ UNCHANGED exit_code
       \/ /\ Exit(0)
          /\ UNCHANGED done
    /\ UNCHANGED <<repo, args, ver, failed, start, pure>>

\* "Are you sure you want to roll back?" (not asked in a dry run); a dry run
\* reports and returns
RbConfirm ==
    /\ pc = "rb_confirm"
    /\ \/ /\ dry_run = "no"
          /\ Did("rb_confirmed")
          /\ pc' = "rb_delete_branch"
          /\ UNCHANGED exit_code
       \/ /\ Exit(0)
          /\ UNCHANGED done
    /\ UNCHANGED <<repo, args, ver, failed, start, pure>>

\* git branch -D <rollback_branch>; a GitCommandError (no such branch, or the
\* branch is checked out) is passed over
RbDeleteBranch ==
    /\ pc = "rb_delete_branch"
    /\ \/ /\ local[RollbackBranch] # NoCommit
          /\ head # RollbackBranch
          /\ local' = [local EXCEPT ![RollbackBranch] = NoCommit]
          /\ Did("rb_delete_branch")
       \/ UNCHANGED <<local, done>>
    /\ pc' = "rb_create_branch"
    /\ UNCHANGED <<head, origin, anc, nextc, dirty, tags, pushed, args, ver, exit_code,
                   failed, start, pure>>

\* git checkout -b <rollback_branch> <tag>
RbCreateBranch ==
    /\ pc = "rb_create_branch"
    /\ \/ /\ local[RollbackBranch] = NoCommit
          /\ local' = [local EXCEPT ![RollbackBranch] = TagCommit]
          /\ head' = RollbackBranch
          /\ Did("rb_create_branch")
          /\ pc' = "rb_find_file"
          /\ UNCHANGED failed
       \/ /\ RbFails("rb_create_branch")
          /\ UNCHANGED <<local, head, done>>
    /\ UNCHANGED <<origin, anc, nextc, dirty, tags, pushed, args, ver, exit_code, start, pure>>

\* The version file: the given one or the first of find_version_file, or none;
\* current_version is "same" when the file already holds the tag's version
RbFindVersionFile ==
    /\ pc = "rb_find_file"
    /\ \/ /\ version_file_path' = TRUE
          /\ current_version' \in {"old", "same"}
          /\ pc' = "rb_updater_checkout"
       \/ /\ version_file_path' = FALSE
          /\ pc' = "rb_update_init"
          /\ UNCHANGED current_version
    /\ UNCHANGED <<repo, args, original_branch, switched_branch, changes_committed, raised,
                   dry_run, exit_code, done, failed, start, pure>>

\* update_version_in_init: rewrite src/voyager/__init__.py, or raise
RbUpdateInit ==
    /\ pc = "rb_update_init"
    /\ \/ /\ dirty' \in BOOLEAN
          /\ Did("write_init")
          /\ pc' = "rb_stage"
          /\ UNCHANGED failed
       \/ /\ RbFails("write_init")
          /\ UNCHANGED <<dirty, done>>
    /\ UNCHANGED <<head, local, origin, anc, nextc, tags, pushed, args, ver, exit_code, start,
                   pure>>

\* VersionUpdater.update_version (rollback.py): switch to the version branch if needed
RbUpdaterCheckout ==
    /\ pc = "rb_updater_checkout"
    /\ CheckoutVersionBranch("rb_updater_write")
    /\ UNCHANGED <<origin, anc, nextc, dirty, tags, pushed, args, current_version,
                   version_file_path, changes_committed, raised, dry_run, exit_code, done,
                   failed, start, pure>>

\* update_version: read, substitute, write back; the tree changes unless the file
\* already held the version; an error is re-raised
RbUpdaterWrite ==
    /\ pc = "rb_updater_write"
    /\ \/ /\ dirty' = (dirty \/ current_version = "old")
          /\ Did("write")
          /\ pc' = IF switched_branch THEN "rb_updater_commit" ELSE "rb_updater_restore"
          /\ UNCHANGED raised
       \/ /\ raised' = TRUE
          /\ pc' = "rb_updater_restore"
          /\ UNCHANGED <<dirty, done>>
    /\ UNCHANGED <<head, local, origin, anc, nextc, tags, pushed, args, original_branch,
                   switched_branch, current_version, version_file_path, changes_committed,
                   dry_run, exit_code, failed, start, pure>>

\* update_version, on the version branch: git add, git commit (which needs a
\* change to commit); a failure is caught
RbUpdaterCommit ==
    /\ pc = "rb_updater_commit"
    /\ \/ /\ dirty \/ staged
          /\ nextc <= MaxCommit
          /\ local' = LocalAfterCommit(head)
          /\ anc' = AncAfterCommit(head)
          /\ nextc' = nextc + 1
          /\ dirty' = FALSE
          /\ staged' = FALSE
          /\ changes_committed' = TRUE
          /\ Did("updater_commit")
          /\ pc' = "rb_updater_push"
       \/ /\ pc' = "rb_updater_restore"
          /\ \E added \in BOOLEAN :
                /\ staged' = IF added THEN staged \/ dirty ELSE staged
                /\ dirty' = IF added THEN FALSE ELSE dirty
          /\ UNCHANGED <<local, anc, nextc, changes_committed, done>>
    /\ UNCHANGED <<head, origin, tags, pushed, args, original_branch, switched_branch,
                   current_version, version_file_path, raised, dry_run, exit_code, failed,
                   start, search_vars, tag, github_authenticated>>

\* update_version: "Push version change to remote?", git push; a failure is caught
RbUpdaterPush ==
    /\ pc = "rb_updater_push"
    /\ \/ /\ pushed' = pushed \cup {VersionBranch}
          /\ origin' = [origin EXCEPT ![VersionBranch] = local[VersionBranch]]
          /\ Did("updater_push")
       \/ UNCHANGED <<pushed, origin, done>>
    /\ pc' = "rb_updater_restore"
    /\ UNCHANGED <<head, local, anc, nextc, dirty, tags, args, ver, exit_code, failed, start,
                   pure>>

\* update_version: finally, restore the original branch; then rollback stages the
\* file unless update_version returned True
RbUpdaterRestore ==
    /\ pc = "rb_updater_restore"
    /\ RestoreBranch("updater_restore_failed")
    /\ IF raised THEN RbFails("write")
       ELSE /\ pc' = IF changes_committed THEN "rb_commit" ELSE "rb_stage"
            /\ UNCHANGED failed
    /\ UNCHANGED <<local, origin, anc, nextc, dirty, tags, pushed, args, ver, exit_code, start,
                   pure>>

\* git add of the version file (or of src/voyager/__init__.py when no version
\* file was found), when update_version did not commit
RbStage ==
    /\ pc = "rb_stage"
    /\ \/ /\ staged' = (staged \/ dirty)
          /\ dirty' = FALSE
          /\ Did("rb_stage")
          /\ pc' = "rb_commit"
          /\ UNCHANGED failed
       \/ /\ RbFails("rb_stage")
          /\ UNCHANGED <<staged, dirty, done>>
    /\ UNCHANGED <<head, local, origin, anc, nextc, tags, pushed, args, ver, exit_code, start,
                   search_vars, tag, github_authenticated>>

\* Commit all changes: git commit -m 'Rollback to <tag>', whatever update_version
\* returned; git refuses when nothing is staged
RbCommit ==
    /\ pc = "rb_commit"
    /\ \/ /\ staged
          /\ nextc <= MaxCommit
          /\ local' = LocalAfterCommit(head)
          /\ anc' = AncAfterCommit(head)
          /\ nextc' = nextc + 1
          /\ staged' = FALSE
          /\ Did("rb_commit")
          /\ pc' = "rb_push_branch"
          /\ UNCHANGED failed
       \/ /\ RbFails("rb_commit")
          /\ UNCHANGED <<local, anc, nextc, staged, done>>
    /\ UNCHANGED <<head, origin, dirty, tags, pushed, args, ver, exit_code, start, search_vars,
                   tag, github_authenticated>>

\* git push -f origin <rollback_branch>
RbPushBranch ==
    /\ pc = "rb_push_branch"
    /\ \/ /\ pushed' = pushed \cup {RollbackBranch}
          /\ origin' = [origin EXCEPT ![RollbackBranch] = local[RollbackBranch]]
          /\ Did("rb_push_branch")
          /\ pc' = "rb_create_tag"
          /\ UNCHANGED failed
       \/ /\ RbFails("rb_push_branch")
          /\ UNCHANGED <<pushed, origin, done>>
    /\ UNCHANGED <<head, local, anc, nextc, dirty, tags, args, ver, exit_code, start, pure>>

\* git_repo.create_tag(rollback_tag)
RbCreateTag ==
    /\ pc = "rb_create_tag"
    /\ \/ /\ tags' = tags \cup {RollbackTag}
          /\ Did("rb_create_tag")
          /\ pc' = "rb_push_tag"
          /\ UNCHANGED failed
       \/ /\ RbFails("rb_create_tag")
          /\ UNCHANGED <<tags, done>>
    /\ UNCHANGED <<head, local, origin, anc, nextc, dirty, pushed, args, ver, exit_code, start,
                   pure>>

\* git push origin <rollback_tag>
RbPushTag ==
    /\ pc = "rb_push_tag"
    /\ \/ /\ pushed' = pushed \cup {RollbackTag}
          /\ Did("rb_push_tag")
          /\ pc' = "rb_publish"
          /\ UNCHANGED failed
       \/ /\ RbFails("rb_push_tag")
          /\ UNCHANGED <<pushed, done>>
    /\ UNCHANGED <<head, local, origin, anc, nextc, dirty, tags, args, ver, exit_code, start,
                   pure>>

\* Mutant of RbPublish: a failed publication ends the rollback with an error.
RbPublishRaises ==
    /\ pc = "rb_publish"
    /\ \/ /\ github_authenticated
          /\ Did("publish")
          /\ Exit(0)
          /\ UNCHANGED failed
       \/ /\ RbFails("publish")
          /\ UNCHANGED <<done, exit_code>>
    /\ UNCHANGED <<repo, args, ver, start, pure>>

\* The GitHub release for the rollback, when authenticated (a failure is reported
\* and passed over), else "Skipping GitHub release creation"; then the pipeline
\* trigger, whose failure is passed over too; the command returns
RbPublish ==
    /\ pc = "rb_publish"
    /\ IF github_authenticated
       THEN Did("publish") \/ Did("publish_failed")
       ELSE Did("publish_skipped")
    /\ Exit(0)
    /\ UNCHANGED <<repo, args, ver, failed, start, pure>>

\* except Exception: 'Error during rollback', sys.exit(1)
RbError ==
    /\ pc = "rb_error"
    /\ Exit(1)
    /\ UNCHANGED <<repo, args, ver, done, failed, start, pure>>

RollbackNext ==
    \/ RbAuthenticate
    \/ RbResolveTag
    \/ RbValidateTag
    \/ RbConfirm
    \/ RbDeleteBranch
    \/ RbCreateBranch
    \/ RbFindVersionFile
    \/ RbUpdateInit
    \/ RbUpdaterCheckout
    \/ RbUpdaterWrite
    \/ RbUpdaterCommit
    \/ RbUpdaterPush
    \/ RbUpdaterRestore
    \/ RbStage
    \/ RbCommit
    \/ RbPushBranch
    \/ RbCreateTag
    \/ RbPushTag
    \/ RbPublish
    \/ RbError

SpecRollback == RollbackInit /\ [][RollbackNext]_vars

\* C15: in a rollback, when update_version returned True, rollback neither stages
\* the version file nor goes on to a commit of its own for the version change.
C15_NoSecondCommit ==
    changes_committed
    => /\ "rb_stage" \notin done
       /\ "rb_commit" \notin done
       /\ failed # "rb_commit"

\* The rollback has done nothing to the repository.
RollbackUntouched ==
    /\ done = {}
    /\ head = start.head
    /\ local = start.local
    /\ nextc = 5
    /\ RollbackTag \notin tags
    /\ pushed = {}
    /\ ~dirty

\* C26: with --dry-run the rollback performs no checkout, no branch deletion or
\* creation, no commit, no tag creation and no push, and never constructs the
\* version updater.
C26_DryRunRollback ==
    dry_run = "yes"
    => /\ RollbackUntouched
       /\ pc \in {"rb_start", "rb_resolve_tag", "rb_validate_tag", "rb_confirm", "exited"}
       /\ ~switched_branch /\ original_branch = "" /\ ~changes_committed
C26_Witness ==
    /\ dry_run = "yes"
    /\ tag \in tags
    /\ start.local[RollbackBranch] # NoCommit
    /\ pc = "exited"
    /\ exit_code = 0

\* C27: if the target tag of a rollback does not exist in the repository, the
\* command exits with status 1 before asking for confirmation and before any
\* branch deletion or creation, file write, commit, tag or push.
C27_MissingTagExits ==
    (tag \notin tags /\ pc \notin {"rb_start", "rb_resolve_tag", "rb_validate_tag"})
    => /\ pc = "exited"
       /\ exit_code = 1
       /\ RollbackUntouched
C27_Witness ==
    /\ tag = "v1"
    /\ tags = {}
    /\ dry_run = "no"
    /\ pc = "exited"
    /\ exit_code = 1

\* C28: when the target tag exists and the branch rollback-to-<tag> is the one
\* checked out (as an earlier rollback to the same tag leaves it), the branch step
\* removes the stale branch and leaves rollback-to-<tag> checked out at the tag's
\* commit.
C28_StaleBranchReplaced ==
    (/\ start.head = RollbackBranch
     /\ "rb_confirmed" \in done
     /\ pc \notin {"rb_delete_branch", "rb_create_branch"})
    => /\ {"rb_delete_branch", "rb_create_branch"} \subseteq done
       /\ head = RollbackBranch
       /\ failed # "rb_create_branch"

\* C29: a rollback without a publishing credential, or whose publish call fails,
\* still has the branch rollback-to-<tag>, the rollback commit and the new tag,
\* reports that release creation is skipped when there is no credential, never
\* calls create_release without one, and exits with status 0.
C29_LocalRollbackSucceeds ==
    /\ [](/\ ~github_authenticated => done \cap {"publish", "publish_failed"} = {}
          /\ failed # "publish"
          /\ (pc = "exited" /\ "rb_push_tag" \in done)
                => /\ exit_code = 0
                   /\ local[RollbackBranch] # NoCommit
                   /\ "rb_commit" \in done
                   /\ RollbackTag \in tags
                   /\ done \cap {"publish", "publish_failed", "publish_skipped"} # {}
                   /\ ~github_authenticated => "publish_skipped" \in done)
    /\ [][pc = "rb_publish" => pc' = "exited" /\ exit_code' = 0]_vars
C29_Witness ==
    /\ pc = "exited"
    /\ exit_code = 0
    /\ ~github_authenticated
    /\ "publish_skipped" \in done
    /\ RollbackTag \in tags
    /\ head = RollbackBranch

\* C30: in a rollback the order is commit, creation of the rollback tag, push of
\* the branch, push of the tag: the tag is created before anything is pushed.
C30_TagBeforePush ==
    /\ "rb_create_tag" \in done => "rb_commit" \in done
    /\ "rb_push_branch" \in done => "rb_create_tag" \in done
    /\ "rb_push_tag" \in done => "rb_push_branch" \in done

\* C31: when the rollback fails with an error after it has checked out the
\* rollback branch (or the version branch), it attempts to check out the branch
\* that was checked out when the command started, before it exits with status 1.
C31_RollbackRestoresBranch ==
    (pc = "exited" /\ exit_code = 1 /\ "rb_create_branch" \in done)
    => \/ head = start.head
       \/ "rb_restore_failed" \in done

\* C39: a rollback to a tag completes also when the version file on the rollback
\* branch already holds the tag's version: the rollback's commit has something
\* to commit.
C39_SameVersionCommits ==
    (pc = "rb_commit" /\ version_file_path /\ current_version = "same" /\ ~changes_committed)
    => staged

\* ------------------------------------------------------------------ delete
\* delete_release in src/src/voyager/commands/delete.py: one run of the command.
\* Here tags are the local tags, pushed the tags on the remote, tag_list the tag
\* names of the GitHub releases, and returned holds what
\* GitHubClient.delete_release returned.
ReleaseTags == {"v1", "v2"}
delete_frame ==
    <<head, local, origin, anc, nextc, dirty, args, ver, start, files, custom_version_file,
      type, new_version, staged, github_authenticated>>

DeleteInit ==
    /\ pc = "del_start"
    /\ tags \in SUBSET ReleaseTags
    /\ pushed \in SUBSET ReleaseTags
    /\ tag_list \in {<<>>, <<"v1">>, <<"v2", "v1">>}
    /\ tag \in {""} \cup ReleaseTags
    /\ github_authenticated \in BOOLEAN
    /\ returned = <<>>
    /\ head = "main"
    /\ local = [b \in RefNames |-> IF b = "main" THEN 1 ELSE NoCommit]
    /\ origin = [b \in RefNames |-> NoCommit]
    /\ anc = InitAnc
    /\ nextc = 5
    /\ dirty = FALSE
    /\ staged = FALSE
    /\ release_branch = "main"
    /\ working_branch = "main"
    /\ current_branch = "main"
    /\ merge_strategy = ""
    /\ exit_code = -1
    /\ original_branch = ""
    /\ switched_branch = FALSE
    /\ current_version = ""
    /\ version_file_path = FALSE
    /\ changes_committed = FALSE
    /\ raised = FALSE
    /\ dry_run = "unset"
    /\ done = {}
    /\ failed = ""
    /\ start = [head |-> head, local |-> local, origin |-> origin, dirty |-> dirty,
                tags |-> tags, pushed |-> pushed, releases |-> tag_list]
    /\ files = <<>>
    /\ custom_version_file = FALSE
    /\ type = ""
    /\ new_version = ""

\* A step of the command raises: except Exception, sys.exit(1)
DelFails(step) == failed' = step /\ pc' = "del_error"

\* GitHubClient(), which raises ValueError without a token; get_releases, which
\* raises when the request fails; "No releases found to delete." exits 1
DelFetchReleases ==
    /\ pc = "del_start"
    /\ \/ /\ github_authenticated
          /\ tag_list # <<>>
          /\ pc' = "del_select"
          /\ UNCHANGED <<exit_code, failed>>
       \/ /\ github_authenticated
          /\ tag_list = <<>>
          /\ Exit(1)
          /\ UNCHANGED failed
       \/ /\ DelFails(IF github_authenticated THEN "get_releases" ELSE "credential")
          /\ UNCHANGED exit_code
    /\ UNCHANGED <<delete_frame, tags, pushed, tag_list, tag, returned, done>>

\* Without -t the operator picks a release by number; with -t the release with
\* that tag name is looked up; "Release with tag ... not found." exits 1
DelSelect ==
    /\ pc = "del_select"
    /\ \/ /\ tag = ""
          /\ \E k \in 1..Len(tag_list) : tag' = tag_list[k]
          /\ pc' = "del_confirm"
          /\ UNCHANGED exit_code
       \/ /\ tag # ""
          /\ \E k \in 1..Len(tag_list) : tag_list[k] = tag
          /\ pc' = "del_confirm"
          /\ UNCHANGED <<tag, exit_code>>
       \/ /\ tag # ""
          /\ \A k \in 1..Len(tag_list) : tag_list[k] # tag
          /\ Exit(1)
          /\ UNCHANGED tag
    /\ UNCHANGED <<delete_frame, tags, pushed, tag_list, returned, done, failed>>

\* Unless --force: "Are you sure you want to delete this release?"; no exits 0
DelConfirm ==
    /\ pc = "del_confirm"
    /\ \/ /\ Did("del_confirmed")
          /\ pc' = "del_release"
          /\ UNCHANGED exit_code
       \/ /\ Exit(0)
          /\ UNCHANGED done
    /\ UNCHANGED <<delete_frame, tags, pushed, tag_list, tag, returned, failed>>

\* The tag names of the releases without the given one.
RECURSIVE WithoutRelease(_, _)
WithoutRelease(rs, t) ==
    IF rs = <<>> THEN <<>>
    ELSE IF Head(rs) = t THEN WithoutRelease(Tail(rs), t)
    ELSE <<Head(rs)>> \o WithoutRelease(Tail(rs), t)

\* success = github_client.delete_release(owner, repo, release_id): the request
\* is answered with 204 and the method returns, without a value (None); any other
\* answer raises HTTPError
DelRelease ==
    /\ pc = "del_release"
    /\ \/ /\ tag_list' = WithoutRelease(tag_list, tag)
          /\ returned' = <<None>>
          /\ Did("release_deleted")
          /\ pc' = "del_tags"
          /\ UNCHANGED failed
       \/ /\ DelFails("delete_release")
          /\ UNCHANGED <<tag_list, returned, done>>
    /\ UNCHANGED <<delete_frame, tags, pushed, tag, exit_code>>

\* if success: git tag -d <tag> and git push origin :refs/tags/<tag>, each with
\* its own warning on a GitCommandError; else "Failed to delete release".  The
\* command returns.
DelTags ==
    /\ pc = "del_tags"
    /\ IF returned # <<None>>
       THEN \E l, r \in BOOLEAN :
               /\ tags' = IF l THEN tags \ {tag} ELSE tags
               /\ pushed' = IF r THEN pushed \ {tag} ELSE pushed
               /\ done' = done \cup {IF l THEN "local_tag_deleted" ELSE "local_tag_warning",
                                     IF r THEN "remote_tag_deleted" ELSE "remote_tag_warning"}
       ELSE /\ Did("failed_to_delete_release")
            /\ UNCHANGED <<tags, pushed>>
    /\ Exit(0)
    /\ UNCHANGED <<delete_frame, tag_list, tag, returned, failed>>

\* except Exception: 'Error deleting release', sys.exit(1)
DelError ==
    /\ pc = "del_error"
    /\ Exit(1)
    /\ UNCHANGED <<delete_frame, tags, pushed, tag_list, tag, returned, done, failed>>

DeleteNext ==
    \/ DelFetchReleases
    \/ DelSelect
    \/ DelConfirm
    \/ DelRelease
    \/ DelTags
    \/ DelError

SpecDelete == DeleteInit /\ [][DeleteNext]_vars

\* C36: after the delete command has deleted the GitHub release for a tag it
\* deletes that tag locally and on the remote; a failure to delete the local tag
\* does not prevent the attempt on the remote tag and leaves the exit status 0;
\* when the operator declines or no release has the tag, nothing is deleted.
C36_TagsDeletedWithRelease ==
    /\ (pc = "exited" /\ "release_deleted" \in done /\ tag \in start.tags)
        => /\ exit_code = 0
           /\ tag \notin tags \/ "local_tag_warning" \in done
           /\ done \cap {"remote_tag_deleted", "remote_tag_warning"} # {}
    /\ "release_deleted" \notin done
        => tags = start.tags /\ pushed = start.pushed /\ tag_list = start.releases

====
